---- MODULE Spec2Model ----
(***************************************************************************)
(* The session coordinator of trivia-world (server.ts): the in-memory      *)
(* registry of games, the socket handlers that mutate it, the question     *)
(* fetch of start-game and the three setTimeout callbacks (question        *)
(* deadline, all-answered grace delay, reveal pause).                      *)
(*                                                                         *)
(* Node runs every handler and every timer callback to completion, so each *)
(* of them is one atomic action.  The only suspension point inside a       *)
(* handler is the await of start-game, which is split in StartGame (up to  *)
(* the fetch) and FetchOk or FetchFailed (the continuation).               *)
(*                                                                         *)
(* name and avatar of a player, category, difficulty and amount of the     *)
(* settings and the prompt text of a question are passed through by the    *)
(* code and never read; they are left out.  lastAnswerTs is set and        *)
(* deleted together with lastAnswer and never read; it is left out too.    *)
(***************************************************************************)
EXTENDS Integers, Sequences, FiniteSets, TLC

\* ------------------------------------------------------------------ bounds
MaxConns == 2        \* sockets that ever connect
MaxCodes == 1        \* lobby codes that are ever generated
MaxQuestions == 2    \* longest batch the question provider returns
MaxStarts == 1       \* start-game requests that reach the fetch, in Spec
MaxSoloConns == 1    \* sockets that ever connect, in SpecRestart
MaxRestarts == 2     \* start-game requests that reach the fetch, in SpecRestart
MaxLobbyConns == 9   \* sockets that ever connect, in SpecLobby
MaxLeavers == 2      \* sockets that ever leave or disconnect, in SpecLobby
MaxRegistryCodes == 2  \* lobby codes that are ever generated, in SpecRegistry

\* ------------------------------------------------------- program constants
DefaultTimeLimit == 15   \* seconds, when settings carry no timeLimit
GraceDelayMs == 200      \* all-answered grace delay
RevealDelayMs == 3000    \* reveal pause
TickMs == RevealDelayMs  \* the unit in which the model counts time: one reveal pause

Conns == 1..MaxConns
Codes == 1..MaxCodes

\* ------------------------------------------------------- optional values
\* A JavaScript value that may be undefined (or deleted): <<>> is absent,
\* <<v>> is present.
None == <<>>
Some(v) == <<v>>
IsSome(o) == o # <<>>
Get(o) == o[1]

\* JavaScript truthiness of an optional string: absent and "" are falsy.
Truthy(o) == IsSome(o) /\ Get(o) # ""

\* ---------------------------------------------------------------- inputs
\* Questions as formatted by start-game from the provider's reply: the
\* k-th question of a batch has correct answer "A" when k is odd and "B"
\* when k is even, and the other text as its one incorrect answer.
Question(k) ==
  IF k % 2 = 1 THEN [correct_answer |-> "A", incorrect_answers |-> <<"B">>]
               ELSE [correct_answer |-> "B", incorrect_answers |-> <<"A">>]

\* What the provider may return: a batch of 0 to MaxQuestions questions.
Batches == { [k \in 1..n |-> Question(k)] : n \in 0..MaxQuestions }

\* Answer texts a client may submit (any string; "" is the falsy one).
AnswerInputs == {"A", ""}

\* questionIndex values a client may submit.
IndexInputs == 0..MaxQuestions

\* settings.timeLimit as sent by a client: missing, null, or a number.
TL_Undefined == [kind |-> "undefined", n |-> 0]
TL_Null == [kind |-> "null", n |-> 0]
TL_Number(k) == [kind |-> "number", n |-> k]
TimeLimitInputs == {TL_Undefined, TL_Null}

\* ----------------------------------------------------------------- state
VARIABLES
  heap,       \* heap[c]: the Game object created under code c
  games,      \* the codes that are keys of the games record
  created,    \* number of codes generated so far
  rooms,      \* rooms[c]: the sockets joined to Socket.IO room c
  connected,  \* connected[s]: socket s has not disconnected
  timers,     \* timers[c]: pending setTimeout callbacks closing over heap[c], in arming order
  fetching,   \* fetching[c][s]: start-game calls of s on heap[c] awaiting the fetch
  starts,     \* number of start-game calls that reached the fetch
  last,       \* the request or callback processed last
  out,        \* the events it emitted, in order
  evalsSinceQuestion,  \* evalsSinceQuestion[c]: scoring passes on heap[c] since its last question broadcast
  epoch,      \* epoch[c]: times heap[c] got a new question list or a new cursor
  lastQuestion  \* lastQuestion[c]: index and answer order of the latest question broadcast to room c

vars == <<heap, games, created, rooms, connected, timers, fetching, starts,
          last, out, evalsSinceQuestion, epoch, lastQuestion>>

\* last, out, evalsSinceQuestion, epoch and lastQuestion are not state of the program:
\* they record what it did, for the properties to speak of.

\* ------------------------------------------------------------ Game, Player
NewPlayer(s) == [id |-> s, score |-> 0, lastAnswer |-> None]

\* The object literal of create-game; the optional fields are undefined.
\* active and evaluating are only ever tested for truthiness, so undefined
\* is FALSE; timer is "none" (undefined or null), "armed" (handle of a
\* pending timer) or "spent" (handle of a timer that has fired);
\* questionEndAt is TRUE when it holds a timestamp.
NewGame(s) ==
  [ players |-> <<NewPlayer(s)>>,
    host |-> s,
    settings |-> None,
    currentQuestionIndex |-> None,
    questions |-> None,
    active |-> FALSE,
    timer |-> "none",
    questionEndAt |-> FALSE,
    evaluating |-> FALSE,
    currentAllAnswers |-> None ]

NoGame == [NewGame(0) EXCEPT !.players = <<>>]

Present(players, s) == \E i \in DOMAIN players : players[i].id = s

\* findIndex, 1-based; 0 when absent
IndexOf(players, s) ==
  IF Present(players, s)
    THEN CHOOSE i \in DOMAIN players :
           /\ players[i].id = s
           /\ \A j \in 1..(i-1) : players[j].id # s
    ELSE 0

RemoveAt(seq, i) == SubSeq(seq, 1, i-1) \o SubSeq(seq, i+1, Len(seq))

\* splice(idx, 1) when idx # -1
Splice(players, s) ==
  IF IndexOf(players, s) # 0 THEN RemoveAt(players, IndexOf(players, s)) ELSE players

\* The three shapes in which players are put on the wire.
\* game.players itself: the Player objects, lastAnswer included when set.
RawPlayers(players) == players
\* p => ({id, name, score, answered: !!p.lastAnswer, avatar})
AnsweredView(players) ==
  [i \in DOMAIN players |->
     [id |-> players[i].id, score |-> players[i].score,
      answered |-> Truthy(players[i].lastAnswer)]]
\* p => ({id, name, score, avatar})
ScoreView(players) ==
  [i \in DOMAIN players |-> [id |-> players[i].id, score |-> players[i].score]]

\* --------------------------------------------------------------- events
\* io.to(code).emit(name, payload)
ToRoom(c, name, payload) == [name |-> name, room |-> c, sock |-> 0, payload |-> payload]
\* socket.emit(name, payload)
ToSocket(s, name, payload) == [name |-> name, room |-> 0, sock |-> s, payload |-> payload]

Label(op, s, c, args) == [op |-> op, sock |-> s, code |-> c, args |-> args]
NoArgs == [none |-> TRUE]

\* ------------------------------------------------------------------ Init
Init ==
  /\ heap = [c \in Codes |-> NoGame]
  /\ games = {}
  /\ created = 0
  /\ rooms = [c \in Codes |-> {}]
  /\ connected = [s \in Conns |-> TRUE]
  /\ timers = [c \in Codes |-> <<>>]
  /\ fetching = [c \in Codes |-> [s \in Conns |-> 0]]
  /\ starts = 0
  /\ last = Label("listen", 0, 0, NoArgs)
  /\ out = <<>>
  /\ evalsSinceQuestion = [c \in Codes |-> 0]
  /\ epoch = [c \in Codes |-> 0]
  /\ lastQuestion = [c \in Codes |-> None]

\* ----------------------------------------------------------- create-game
\* Math.random codes are taken as never colliding: the code is fresh.  The
\* codes that may be generated are those the state has a Game object for.
CreateGame(s) ==
  /\ connected[s]
  /\ created + 1 \in DOMAIN heap
  /\ LET c == created + 1 IN
       /\ created' = c
       /\ rooms' = [rooms EXCEPT ![c] = @ \cup {s}]
       /\ heap' = [heap EXCEPT ![c] = NewGame(s)]
       /\ games' = games \cup {c}
       /\ last' = Label("create-game", s, c, NoArgs)
       /\ out' = << ToSocket(s, "game-created", [gameCode |-> c]),
                    ToRoom(c, "update-players", [players |-> RawPlayers(NewGame(s).players)]) >>
  /\ UNCHANGED <<connected, timers, fetching, starts, evalsSinceQuestion, epoch, lastQuestion>>

\* ------------------------------------------------------------- join-game
\* join-game without its test for the socket being in the roster already.
JoinGame_AlwaysAppend(s, c) ==
  /\ connected[s]
  /\ last' = Label("join-game", s, c, NoArgs)
  /\ IF c \in games
       THEN LET players == Append(heap[c].players, NewPlayer(s))
            IN /\ rooms' = [rooms EXCEPT ![c] = @ \cup {s}]
               /\ heap' = [heap EXCEPT ![c].players = players]
               /\ out' = << ToRoom(c, "update-players", [players |-> RawPlayers(players)]),
                            ToSocket(s, "join-success", [gameCode |-> c]) >>
       ELSE /\ out' = << ToSocket(s, "join-error", [message |-> "Game not found. Please check the code."]) >>
            /\ UNCHANGED <<rooms, heap>>
  /\ UNCHANGED <<games, created, connected, timers, fetching, starts, evalsSinceQuestion, epoch,
                 lastQuestion>>

JoinGame(s, c) ==
  /\ connected[s]
  /\ last' = Label("join-game", s, c, NoArgs)
  /\ IF c \in games
       THEN LET players == IF Present(heap[c].players, s)
                             THEN heap[c].players
                             ELSE Append(heap[c].players, NewPlayer(s))
            IN /\ rooms' = [rooms EXCEPT ![c] = @ \cup {s}]
               /\ heap' = [heap EXCEPT ![c].players = players]
               /\ out' = << ToRoom(c, "update-players", [players |-> RawPlayers(players)]),
                            ToSocket(s, "join-success", [gameCode |-> c]) >>
       ELSE /\ out' = << ToSocket(s, "join-error", [message |-> "Game not found. Please check the code."]) >>
            /\ UNCHANGED <<rooms, heap>>
  /\ UNCHANGED <<games, created, connected, timers, fetching, starts, evalsSinceQuestion, epoch, lastQuestion>>

\* ----------------------------------------------------------- get-players
GetPlayers(s, c) ==
  /\ connected[s]
  /\ last' = Label("get-players", s, c, NoArgs)
  /\ out' = IF c \in games
              THEN << ToSocket(s, "update-players", [players |-> RawPlayers(heap[c].players)]) >>
              ELSE << ToSocket(s, "join-error", [message |-> "Game not found. Please check the code."]) >>
  /\ UNCHANGED <<heap, games, created, rooms, connected, timers, fetching, starts,
                 evalsSinceQuestion, epoch, lastQuestion>>

\* ------------------------------------------------------------ leave-game
\* leave-game without its delete of a game whose last player has left.
LeaveGame_KeepsEmptyGame(s, c) ==
  /\ connected[s]
  /\ last' = Label("leave-game", s, c, [host |-> c \in games /\ heap[c].host = s])
  /\ IF c \notin games
       THEN /\ out' = <<>>
            /\ UNCHANGED <<heap, games, rooms>>
       ELSE LET players == Splice(heap[c].players, s) IN
            /\ rooms' = [rooms EXCEPT ![c] = @ \ {s}]
            /\ IF Len(players) = 0
                 THEN /\ heap' = [heap EXCEPT ![c].players = players]
                      /\ games' = games
                      /\ out' = <<>>
                 ELSE /\ heap' = [heap EXCEPT ![c].players = players,
                                              ![c].host = IF @ = s THEN players[1].id ELSE @]
                      /\ games' = games
                      /\ out' = << ToRoom(c, "update-players", [players |-> RawPlayers(players)]) >>
  /\ UNCHANGED <<created, connected, timers, fetching, starts, evalsSinceQuestion, epoch, lastQuestion>>

\* leave-game without its socket.leave.
LeaveGame_StaysInRoom(s, c) ==
  /\ connected[s]
  /\ last' = Label("leave-game", s, c, [host |-> c \in games /\ heap[c].host = s])
  /\ IF c \notin games
       THEN /\ out' = <<>>
            /\ UNCHANGED <<heap, games, rooms>>
       ELSE LET players == Splice(heap[c].players, s) IN
            /\ rooms' = rooms
            /\ IF Len(players) = 0
                 THEN /\ heap' = [heap EXCEPT ![c].players = players]
                      /\ games' = games \ {c}
                      /\ out' = <<>>
                 ELSE /\ heap' = [heap EXCEPT ![c].players = players,
                                              ![c].host = IF @ = s THEN players[1].id ELSE @]
                      /\ games' = games
                      /\ out' = << ToRoom(c, "update-players", [players |-> RawPlayers(players)]) >>
  /\ UNCHANGED <<created, connected, timers, fetching, starts, evalsSinceQuestion, epoch, lastQuestion>>

LeaveGame(s, c) ==
  /\ connected[s]
  /\ last' = Label("leave-game", s, c, [host |-> c \in games /\ heap[c].host = s])
  /\ IF c \notin games
       THEN /\ out' = <<>>
            /\ UNCHANGED <<heap, games, rooms>>
       ELSE LET players == Splice(heap[c].players, s) IN
            /\ rooms' = [rooms EXCEPT ![c] = @ \ {s}]
            /\ IF Len(players) = 0
                 THEN /\ heap' = [heap EXCEPT ![c].players = players]
                      /\ games' = games \ {c}
                      /\ out' = <<>>
                 ELSE /\ heap' = [heap EXCEPT ![c].players = players,
                                              ![c].host = IF @ = s THEN players[1].id ELSE @]
                      /\ games' = games
                      /\ out' = << ToRoom(c, "update-players", [players |-> RawPlayers(players)]) >>
  /\ UNCHANGED <<created, connected, timers, fetching, starts, evalsSinceQuestion, epoch, lastQuestion>>

\* ------------------------------------------------------------ disconnect
\* disconnect that also takes the recorded answers of the remaining players.
DisconnectGame_ClearsAnswers(g, s) ==
  LET left == Splice(g.players, s)
      players == [i \in DOMAIN left |-> [left[i] EXCEPT !.lastAnswer = None]] IN
  IF ~Present(g.players, s) THEN g
  ELSE IF Len(players) = 0 THEN [g EXCEPT !.players = players]
  ELSE [g EXCEPT !.players = players,
                 !.host = IF @ = s THEN players[1].id ELSE @]

\* disconnect leaving the host field as it is.
DisconnectGame_NoHostReassign(g, s) ==
  IF ~Present(g.players, s) THEN g ELSE [g EXCEPT !.players = Splice(g.players, s)]

\* Socket.IO has taken the socket out of every room when the handler runs.
\* The handler then visits every registered game, in key order.
DisconnectGame(g, s) ==
  LET players == Splice(g.players, s) IN
  IF ~Present(g.players, s) THEN g
  ELSE IF Len(players) = 0 THEN [g EXCEPT !.players = players]
  ELSE [g EXCEPT !.players = players,
                 !.host = IF @ = s THEN players[1].id ELSE @]

RECURSIVE DisconnectEmits(_, _)
DisconnectEmits(s, c) ==
  IF c \notin DOMAIN heap THEN <<>>
  ELSE (IF c \in games /\ Present(heap[c].players, s) /\ Len(heap[c].players) > 1
          THEN << ToRoom(c, "update-players",
                         [players |-> RawPlayers(DisconnectGame(heap[c], s).players)]) >>
          ELSE <<>>)
       \o DisconnectEmits(s, c + 1)

\* disconnect leaving its loop at the first game it finds the socket in.
Disconnect_FirstGameOnly(s) ==
  LET found == { c \in games : Present(heap[c].players, s) }
      first == { c \in found : \A d \in found : c <= d }
  IN
  /\ connected[s]
  /\ connected' = [connected EXCEPT ![s] = FALSE]
  /\ rooms' = [c \in DOMAIN rooms |-> rooms[c] \ {s}]
  /\ heap' = [c \in DOMAIN heap |-> IF c \in first THEN DisconnectGame(heap[c], s) ELSE heap[c]]
  /\ games' = {c \in games : c \in first => Len(DisconnectGame(heap[c], s).players) > 0}
  /\ last' = Label("disconnect", s, 0, [host |-> \E c \in games : heap[c].host = s])
  /\ out' = SubSeq(DisconnectEmits(s, 1), 1,
                   IF \E c \in first : Len(heap[c].players) > 1 THEN 1 ELSE 0)
  /\ UNCHANGED <<created, timers, fetching, starts, evalsSinceQuestion, epoch, lastQuestion>>

Disconnect(s) ==
  /\ connected[s]
  /\ connected' = [connected EXCEPT ![s] = FALSE]
  /\ rooms' = [c \in DOMAIN rooms |-> rooms[c] \ {s}]
  /\ heap' = [c \in DOMAIN heap |-> IF c \in games THEN DisconnectGame(heap[c], s) ELSE heap[c]]
  /\ games' = {c \in games : Len(DisconnectGame(heap[c], s).players) > 0}
  /\ last' = Label("disconnect", s, 0, [host |-> \E c \in games : heap[c].host = s])
  /\ out' = DisconnectEmits(s, 1)
  /\ UNCHANGED <<created, timers, fetching, starts, evalsSinceQuestion, epoch, lastQuestion>>

\* ------------------------------------------------------------- get-state
AllAnswers(raw) == raw.incorrect_answers \o <<raw.correct_answer>>

\* The orders [...].sort(() => Math.random() - 0.5) may leave: any permutation.
Perms(seq) ==
  { [i \in DOMAIN seq |-> seq[f[i]]] :
      f \in { h \in [DOMAIN seq -> DOMAIN seq] :
                \A i, j \in DOMAIN seq : h[i] = h[j] => i = j } }

\* The time limit taken as null whatever the settings say.
EffectiveTimeLimit_AlwaysNull(g) == None

\* typeof timeLimitSetting === 'number' && timeLimitSetting > 0 ? timeLimitSetting : null
EffectiveTimeLimit(g) ==
  IF IsSome(g.settings) /\ Get(g.settings).timeLimit.kind = "number"
     /\ Get(g.settings).timeLimit.n > 0
    THEN Some(Get(g.settings).timeLimit.n)
    ELSE None

\* game.questions[game.currentQuestionIndex], when all three exist
CurrentQuestion(g) ==
  IF /\ IsSome(g.currentQuestionIndex)
     /\ IsSome(g.questions)
     /\ Get(g.currentQuestionIndex) + 1 \in DOMAIN Get(g.questions)
    THEN Some(Get(g.questions)[Get(g.currentQuestionIndex) + 1])
    ELSE None

\* The object sent as `question`, by sendQuestion and by get-state alike.
QuestionPayload(idx, raw, all_answers, timeLimit, endTime) ==
  [ index |-> idx,
    correct_answer |-> raw.correct_answer,
    incorrect_answers |-> raw.incorrect_answers,
    all_answers |-> all_answers,
    timeLimit |-> timeLimit,
    endTime |-> endTime ]

\* myAnswer: the requester's own lastAnswer, undefined when not in the roster
MyAnswer(g, s) ==
  IF Present(g.players, s) THEN g.players[IndexOf(g.players, s)].lastAnswer ELSE None

\* get-state without its test of game.evaluating.
GetStateReply_NoEvaluatingCheck(g, s, shuffle) ==
  IF IsSome(CurrentQuestion(g))
    THEN LET raw == Get(CurrentQuestion(g))
             all_answers == IF IsSome(g.currentAllAnswers)
                              THEN Get(g.currentAllAnswers) ELSE shuffle
             timeLimit == EffectiveTimeLimit(g)
         IN [ players |-> AnsweredView(g.players),
              question |-> QuestionPayload(Get(g.currentQuestionIndex), raw, all_answers,
                                           timeLimit, g.questionEndAt \/ IsSome(timeLimit)),
              timeLeft |-> g.questionEndAt,
              myAnswer |-> MyAnswer(g, s) ]
  ELSE [players |-> AnsweredView(g.players)]

\* get-state ordering the answers anew instead of reading currentAllAnswers.
GetStateReply_FreshOrdering(g, s, shuffle) ==
  IF g.evaluating
    THEN [players |-> AnsweredView(g.players)]
  ELSE IF IsSome(CurrentQuestion(g))
    THEN LET raw == Get(CurrentQuestion(g))
             timeLimit == EffectiveTimeLimit(g)
         IN [ players |-> AnsweredView(g.players),
              question |-> QuestionPayload(Get(g.currentQuestionIndex), raw, AllAnswers(raw),
                                           timeLimit, g.questionEndAt \/ IsSome(timeLimit)),
              timeLeft |-> g.questionEndAt,
              myAnswer |-> MyAnswer(g, s) ]
  ELSE [players |-> AnsweredView(g.players)]

GetStateReply(g, s, shuffle) ==
  IF g.evaluating
    THEN [players |-> AnsweredView(g.players)]
  ELSE IF IsSome(CurrentQuestion(g))
    THEN LET raw == Get(CurrentQuestion(g))
             all_answers == IF IsSome(g.currentAllAnswers)
                              THEN Get(g.currentAllAnswers) ELSE shuffle
             timeLimit == EffectiveTimeLimit(g)
         IN [ players |-> AnsweredView(g.players),
              question |-> QuestionPayload(Get(g.currentQuestionIndex), raw, all_answers,
                                           timeLimit, g.questionEndAt \/ IsSome(timeLimit)),
              timeLeft |-> g.questionEndAt,
              myAnswer |-> MyAnswer(g, s) ]
  ELSE [players |-> AnsweredView(g.players)]

GetState(s, c) ==
  /\ connected[s]
  /\ last' = Label("get-state", s, c, NoArgs)
  /\ IF c \notin games
       THEN out' = << ToSocket(s, "join-error", [message |-> "Game not found."]) >>
       ELSE \E shuffle \in (IF ~heap[c].evaluating /\ IsSome(CurrentQuestion(heap[c]))
                               /\ ~IsSome(heap[c].currentAllAnswers)
                              THEN Perms(AllAnswers(Get(CurrentQuestion(heap[c]))))
                              ELSE {<<>>}) :
              out' = << ToSocket(s, "state", GetStateReply(heap[c], s, shuffle)) >>
  /\ UNCHANGED <<heap, games, created, rooms, connected, timers, fetching, starts,
                 evalsSinceQuestion, epoch, lastQuestion>>

\* ---------------------------------------------------------------- timers
\* A pending setTimeout callback.  raw is the question a deadline callback
\* closes over; tracked says that game.timer holds this timer's handle; left
\* is the number of ticks until the timer expires.
Timer(kind, delay, raw, tracked, left) ==
  [kind |-> kind, delay |-> delay, raw |-> raw, tracked |-> tracked, left |-> left,
   epoch |-> 0]

\* The timer is armed in epoch e (recorded for the properties only).
InEpoch(t, e) == [t EXCEPT !.epoch = e]

\* Time is counted in ticks of TickMs.  A timer armed somewhere within a
\* tick expires delay later: that is delay \div TickMs ticks ahead, or one
\* more when the delay is no multiple of TickMs and crosses a tick boundary.
\* A timer does not expire before one of no longer delay armed before it.
Ticks(delay) == { delay \div TickMs, (delay + TickMs - 1) \div TickMs }
ArmChoices(tms, delay) ==
  { k \in Ticks(delay) :
      \A j \in DOMAIN tms : tms[j].delay <= delay => tms[j].left <= k }

\* game.timer = setTimeout(<deadline callback>, timeLimit * 1000)
DeadlineTimer(raw, limit, left) == Timer("deadline", limit * 1000, Some(raw), TRUE, left)
\* setTimeout(<evaluation>, 200): the handle is not kept
GraceTimer(left) == Timer("grace", GraceDelayMs, None, FALSE, left)
\* game.timer = setTimeout(<next question>, 3000)
RevealTimer(left) == Timer("reveal", RevealDelayMs, None, TRUE, left)

\* if (game.timer) { clearTimeout(game.timer); game.timer = null }
\* clearTimeout of a spent handle does nothing.
ClearTimeout(tms) == SelectSeq(tms, LAMBDA t : ~t.tracked)

\* game.timer = setTimeout(...): the handle game.timer held before is dropped,
\* its timer stays pending.
Untrack(tms) == [i \in DOMAIN tms |-> [tms[i] EXCEPT !.tracked = FALSE]]
SetTimer(tms, t) == Append(Untrack(tms), t)

\* Node fires a timer once it has expired, and timers in order of expiry: a
\* timer armed earlier with a delay that is not longer fires first.
MayFire(c, i) ==
  /\ timers[c][i].left = 0
  /\ \A j \in 1..(i-1) : timers[c][j].delay > timers[c][i].delay

\* Time passes to the next tick; no timer is left behind expired.
Tick ==
  /\ \E c \in DOMAIN timers : timers[c] # <<>>
  /\ \A c \in DOMAIN timers : \A i \in DOMAIN timers[c] : timers[c][i].left > 0
  /\ timers' = [c \in DOMAIN timers |->
                  [i \in DOMAIN timers[c] |-> [timers[c][i] EXCEPT !.left = @ - 1]]]
  /\ last' = Label("tick", 0, 0, NoArgs)
  /\ out' = <<>>
  /\ UNCHANGED <<heap, games, created, rooms, connected, fetching, starts,
                 evalsSinceQuestion, epoch, lastQuestion>>

\* -------------------------------------------------- sendQuestion, endGame
ClearAnswers(players) ==
  [i \in DOMAIN players |-> [players[i] EXCEPT !.lastAnswer = None]]

\* endGame(gameCode), reached from sendQuestion with games[gameCode] = g
EndGame(c, g, tms) ==
  [ game |-> [g EXCEPT !.active = FALSE, !.timer = "none", !.currentAllAnswers = None],
    timers |-> IF g.timer # "none" THEN ClearTimeout(tms) ELSE tms,
    emits |-> << ToRoom(c, "game-over", [players |-> ScoreView(g.players)]) >>,
    asked |-> FALSE ]

\* sendQuestion without its lookup of the game in the registry.
SendQuestion_NoRegistryLookup(c, g, tms, shuffle, left, e) ==
  IF ~IsSome(g.questions)
    THEN [game |-> g, timers |-> tms, emits |-> <<>>, asked |-> FALSE]
  ELSE
    LET idx == IF IsSome(g.currentQuestionIndex) THEN Get(g.currentQuestionIndex) ELSE 0
        qs == Get(g.questions)
    IN IF idx + 1 \notin DOMAIN qs
         THEN EndGame(c, g, tms)
         ELSE
           LET raw == qs[idx + 1]
               timeLimit == EffectiveTimeLimit(g)
               cleared == IF g.timer # "none" THEN ClearTimeout(tms) ELSE tms
           IN [ game |-> [g EXCEPT !.currentAllAnswers = Some(shuffle),
                                   !.players = ClearAnswers(@),
                                   !.questionEndAt = IsSome(timeLimit),
                                   !.timer = IF IsSome(timeLimit) THEN "armed" ELSE "none"],
                timers |-> IF IsSome(timeLimit)
                             THEN SetTimer(cleared,
                                    InEpoch(DeadlineTimer(raw, Get(timeLimit), left), e))
                             ELSE cleared,
                emits |-> << ToRoom(c, "question",
                                    QuestionPayload(idx, raw, shuffle, timeLimit,
                                                    IsSome(timeLimit))) >>,
                asked |-> TRUE ]

\* sendQuestion(gameCode) when heap[c] is g and its pending timers are tms;
\* shuffle is the order the random sort leaves, left the ticks until the
\* deadline timer expires, e the epoch it is armed in.
SendQuestion(c, g, tms, shuffle, left, e) ==
  IF c \notin games \/ ~IsSome(g.questions)
    THEN [game |-> g, timers |-> tms, emits |-> <<>>, asked |-> FALSE]
  ELSE
    LET idx == IF IsSome(g.currentQuestionIndex) THEN Get(g.currentQuestionIndex) ELSE 0
        qs == Get(g.questions)
    IN IF idx + 1 \notin DOMAIN qs
         THEN EndGame(c, g, tms)
         ELSE
           LET raw == qs[idx + 1]
               timeLimit == EffectiveTimeLimit(g)
               cleared == IF g.timer # "none" THEN ClearTimeout(tms) ELSE tms
           IN [ game |-> [g EXCEPT !.currentAllAnswers = Some(shuffle),
                                   !.players = ClearAnswers(@),
                                   !.questionEndAt = IsSome(timeLimit),
                                   !.timer = IF IsSome(timeLimit) THEN "armed" ELSE "none"],
                timers |-> IF IsSome(timeLimit)
                             THEN SetTimer(cleared,
                                    InEpoch(DeadlineTimer(raw, Get(timeLimit), left), e))
                             ELSE cleared,
                emits |-> << ToRoom(c, "question",
                                    QuestionPayload(idx, raw, shuffle, timeLimit,
                                                    IsSome(timeLimit))) >>,
                asked |-> TRUE ]

\* lastQuestion after a call of sendQuestion with result r: the index and the
\* answer order of the question event, when it emitted one.
Asked(r, before) ==
  IF r.asked
    THEN Some([index |-> r.emits[1].payload.index,
               all_answers |-> r.emits[1].payload.all_answers])
    ELSE before

\* The orders the random sort of sendQuestion may leave, <<>> when it does
\* not get that far.
ShuffleChoices(c, g) ==
  IF c \in games /\ IsSome(g.questions) /\ IsSome(CurrentQuestion(
         [g EXCEPT !.currentQuestionIndex = IF IsSome(@) THEN @ ELSE Some(0)]))
    THEN Perms(AllAnswers(Get(CurrentQuestion(
         [g EXCEPT !.currentQuestionIndex = IF IsSome(@) THEN @ ELSE Some(0)]))))
    ELSE {<<>>}

\* The ticks the deadline timer of sendQuestion may take, 0 when it arms none.
DeadlineChoices(c, g, tms) ==
  IF ShuffleChoices(c, g) # {<<>>} /\ IsSome(EffectiveTimeLimit(g))
    THEN ArmChoices(IF g.timer # "none" THEN ClearTimeout(tms) ELSE tms,
                    Get(EffectiveTimeLimit(g)) * 1000)
    ELSE {0}

\* ------------------------------------------------------------ start-game
\* Up to the await: the checks, then the settings are persisted and the
\* fetch is issued.  limit bounds the calls that get that far.
StoredTimeLimit(tl) ==
  IF tl.kind = "undefined" THEN TL_Number(DefaultTimeLimit) ELSE tl

\* start-game without its test of game.host.
StartGame_NoHostCheck(s, c, tl, limit) ==
  /\ connected[s]
  /\ last' = Label("start-game", s, c, NoArgs)
  /\ IF c \notin games
       THEN /\ out' = << ToSocket(s, "start-error", [message |-> "Game not found"]) >>
            /\ UNCHANGED <<heap, fetching, starts>>
       ELSE /\ starts < limit
            /\ starts' = starts + 1
            /\ heap' = [heap EXCEPT ![c].settings = Some([timeLimit |-> StoredTimeLimit(tl)])]
            /\ fetching' = [fetching EXCEPT ![c][s] = @ + 1]
            /\ out' = <<>>
  /\ UNCHANGED <<games, created, rooms, connected, timers, evalsSinceQuestion, epoch,
                 lastQuestion>>

StartGame(s, c, tl, limit) ==
  /\ connected[s]
  /\ last' = Label("start-game", s, c, NoArgs)
  /\ IF c \notin games
       THEN /\ out' = << ToSocket(s, "start-error", [message |-> "Game not found"]) >>
            /\ UNCHANGED <<heap, fetching, starts>>
     ELSE IF heap[c].host # s
       THEN /\ out' = << ToSocket(s, "start-error",
                                  [message |-> "Only the host can start the game"]) >>
            /\ UNCHANGED <<heap, fetching, starts>>
     ELSE /\ starts < limit
          /\ starts' = starts + 1
          /\ heap' = [heap EXCEPT ![c].settings = Some([timeLimit |-> StoredTimeLimit(tl)])]
          /\ fetching' = [fetching EXCEPT ![c][s] = @ + 1]
          /\ out' = <<>>
  /\ UNCHANGED <<games, created, rooms, connected, timers, evalsSinceQuestion, epoch, lastQuestion>>

\* The continuation of start-game leaving the cursor as it finds it.
FetchOk_KeepsCursor(c, s, data) ==
  /\ fetching[c][s] > 0
  /\ fetching' = [fetching EXCEPT ![c][s] = @ - 1]
  /\ last' = Label("fetch-ok", s, c, NoArgs)
  /\ LET g == [heap[c] EXCEPT !.questions = Some(data),
                              !.active = TRUE]
     IN \E shuffle \in ShuffleChoices(c, g), left \in DeadlineChoices(c, g, timers[c]) :
          LET r == SendQuestion(c, g, timers[c], shuffle, left, epoch[c] + 1) IN
          /\ heap' = [heap EXCEPT ![c] = r.game]
          /\ timers' = [timers EXCEPT ![c] = r.timers]
          /\ out' = << ToRoom(c, "game-started", [settings |-> g.settings]) >> \o r.emits
          /\ evalsSinceQuestion' =
               [evalsSinceQuestion EXCEPT ![c] = IF r.asked THEN 0 ELSE @]
          /\ lastQuestion' = [lastQuestion EXCEPT ![c] = Asked(r, @)]
  /\ epoch' = [epoch EXCEPT ![c] = @ + 1]
  /\ UNCHANGED <<games, created, rooms, connected, starts>>

\* The continuation after the await, on the Game object the handler looked
\* up before it: the provider's batch has arrived.
FetchOk(c, s, data) ==
  /\ fetching[c][s] > 0
  /\ fetching' = [fetching EXCEPT ![c][s] = @ - 1]
  /\ last' = Label("fetch-ok", s, c, NoArgs)
  /\ LET g == [heap[c] EXCEPT !.questions = Some(data),
                              !.currentQuestionIndex = Some(0),
                              !.active = TRUE]
     IN \E shuffle \in ShuffleChoices(c, g), left \in DeadlineChoices(c, g, timers[c]) :
          LET r == SendQuestion(c, g, timers[c], shuffle, left, epoch[c] + 1) IN
          /\ heap' = [heap EXCEPT ![c] = r.game]
          /\ timers' = [timers EXCEPT ![c] = r.timers]
          /\ out' = << ToRoom(c, "game-started", [settings |-> g.settings]) >> \o r.emits
          /\ evalsSinceQuestion' =
               [evalsSinceQuestion EXCEPT ![c] = IF r.asked THEN 0 ELSE @]
          /\ lastQuestion' = [lastQuestion EXCEPT ![c] = Asked(r, @)]
  /\ epoch' = [epoch EXCEPT ![c] = @ + 1]
  /\ UNCHANGED <<games, created, rooms, connected, starts>>

\* The fetch or the parsing of its reply threw: the catch block.
FetchFailed(c, s) ==
  /\ fetching[c][s] > 0
  /\ fetching' = [fetching EXCEPT ![c][s] = @ - 1]
  /\ last' = Label("fetch-failed", s, c, NoArgs)
  /\ out' = << ToSocket(s, "start-error", [message |-> "Failed to fetch questions"]) >>
  /\ UNCHANGED <<heap, games, created, rooms, connected, timers, starts,
                 evalsSinceQuestion, epoch, lastQuestion>>

\* --------------------------------------------------------- submit-answer
\* The scoring pass giving a point also to the players without an answer.
Evaluate_ScoresMissingAnswer(players, correct) ==
  [i \in DOMAIN players |->
     [players[i] EXCEPT
        !.score = IF ~Truthy(players[i].lastAnswer) \/ players[i].lastAnswer = correct
                    THEN @ + 1 ELSE @,
        !.lastAnswer = None]]

\* for (const p of game.players): one point when the truthy answer is the
\* correct one; lastAnswer is deleted either way.
Evaluate(players, correct) ==
  [i \in DOMAIN players |->
     [players[i] EXCEPT
        !.score = IF Truthy(players[i].lastAnswer) /\ players[i].lastAnswer = correct
                    THEN @ + 1 ELSE @,
        !.lastAnswer = None]]

AllAnswered(players) == \A i \in DOMAIN players : Truthy(players[i].lastAnswer)

\* submit-answer without its test of questionIndex.
SubmitIgnored_NoIndexCheck(g, s, questionIndex) ==
  \/ ~g.active
  \/ ~Present(g.players, s)
  \/ Truthy(g.players[IndexOf(g.players, s)].lastAnswer)

\* submit-answer without its test of game.active.
SubmitIgnored_NoActiveCheck(g, s, questionIndex) ==
  \/ Some(questionIndex) # g.currentQuestionIndex
  \/ ~Present(g.players, s)
  \/ Truthy(g.players[IndexOf(g.players, s)].lastAnswer)

\* The early returns of submit-answer, once games[gameCode] is found to be g.
SubmitIgnored(g, s, questionIndex) ==
  \/ ~g.active
  \/ Some(questionIndex) # g.currentQuestionIndex
  \/ ~Present(g.players, s)
  \/ Truthy(g.players[IndexOf(g.players, s)].lastAnswer)

\* submit-answer clearing the timer every game holds in its timer field, as if
\* the handle were one variable of the server.
SubmitAnswer_SharedTimer(s, c, answer, questionIndex) ==
  /\ connected[s]
  /\ last' = Label("submit-answer", s, c, [questionIndex |-> questionIndex])
  /\ IF c \notin games \/ SubmitIgnored(heap[c], s, questionIndex)
       THEN /\ out' = <<>>
            /\ UNCHANGED <<heap, timers>>
       ELSE
         LET g == heap[c]
             players == [g.players EXCEPT ![IndexOf(g.players, s)].lastAnswer = Some(answer)]
             update == ToRoom(c, "update-players", [players |-> AnsweredView(players)])
             cleared == IF g.timer # "none" THEN ClearTimeout(timers[c]) ELSE timers[c]
         IN IF AllAnswered(players) /\ ~g.evaluating
              THEN /\ heap' = [heap EXCEPT ![c].players = players,
                                           ![c].evaluating = TRUE,
                                           ![c].timer = "none"]
                   /\ \E left \in ArmChoices(cleared, GraceDelayMs) :
                        timers' = [d \in DOMAIN timers |->
                                     IF d = c
                                       THEN Append(cleared, InEpoch(GraceTimer(left), epoch[c]))
                                       ELSE ClearTimeout(timers[d])]
                   /\ out' = << update,
                                ToRoom(c, "all-answered", [players |-> AnsweredView(players)]) >>
              ELSE /\ heap' = [heap EXCEPT ![c].players = players]
                   /\ out' = << update >>
                   /\ UNCHANGED timers
  /\ UNCHANGED <<games, created, rooms, connected, fetching, starts, evalsSinceQuestion, epoch, lastQuestion>>

SubmitAnswer(s, c, answer, questionIndex) ==
  /\ connected[s]
  /\ last' = Label("submit-answer", s, c, [questionIndex |-> questionIndex])
  /\ IF c \notin games \/ SubmitIgnored(heap[c], s, questionIndex)
       THEN /\ out' = <<>>
            /\ UNCHANGED <<heap, timers>>
       ELSE
         LET g == heap[c]
             players == [g.players EXCEPT ![IndexOf(g.players, s)].lastAnswer = Some(answer)]
             update == ToRoom(c, "update-players", [players |-> AnsweredView(players)])
             cleared == IF g.timer # "none" THEN ClearTimeout(timers[c]) ELSE timers[c]
         IN IF AllAnswered(players) /\ ~g.evaluating
              THEN /\ heap' = [heap EXCEPT ![c].players = players,
                                           ![c].evaluating = TRUE,
                                           ![c].timer = "none"]
                   /\ \E left \in ArmChoices(cleared, GraceDelayMs) :
                        timers' = [timers EXCEPT ![c] =
                                     Append(cleared, InEpoch(GraceTimer(left), epoch[c]))]
                   /\ out' = << update,
                                ToRoom(c, "all-answered", [players |-> AnsweredView(players)]) >>
              ELSE /\ heap' = [heap EXCEPT ![c].players = players]
                   /\ out' = << update >>
                   /\ UNCHANGED timers
  /\ UNCHANGED <<games, created, rooms, connected, fetching, starts, evalsSinceQuestion, epoch, lastQuestion>>

\* ------------------------------------------------------- timer callbacks
\* The timer at position i of timers[c] fires: it is no longer pending, and
\* a handle game.timer holds to it is spent.
Fired(c, i) ==
  [ game |-> [heap[c] EXCEPT !.timer = IF timers[c][i].tracked THEN "spent" ELSE @],
    timers |-> RemoveAt(timers[c], i) ]

\* evalsSinceQuestion counts up to 2: once, and more than once.
Bump(n) == IF n < 2 THEN n + 1 ELSE n

\* The session has moved on since the timer was armed: the cursor changed
\* or the question list was replaced.
Stale(c, i) == timers[c][i].epoch # epoch[c]

\* The grace callback without its delete of game.currentAllAnswers.
GraceFire_KeepsOrdering(c, i) ==
  /\ timers[c][i].kind = "grace"
  /\ MayFire(c, i)
  /\ LET g == Fired(c, i).game
         idx == IF IsSome(g.currentQuestionIndex) THEN Get(g.currentQuestionIndex) ELSE 0
         raw == CurrentQuestion([g EXCEPT !.currentQuestionIndex = Some(idx)])
         correct == IF IsSome(raw) THEN Some(Get(raw).correct_answer) ELSE None
         players == Evaluate(g.players, correct)
     IN /\ heap' = [heap EXCEPT ![c] = [g EXCEPT !.players = players,
                                                 !.currentQuestionIndex = Some(idx + 1),
                                                 !.timer = "armed"]]
        /\ \E left \in ArmChoices(Fired(c, i).timers, RevealDelayMs) :
             timers' = [timers EXCEPT ![c] =
                          SetTimer(Fired(c, i).timers, InEpoch(RevealTimer(left), epoch[c] + 1))]
        /\ out' = << ToRoom(c, "question-ended",
                            [correctAnswer |-> correct, players |-> ScoreView(players)]) >>
  /\ last' = Label("grace-timer", 0, c, [stale |-> Stale(c, i)])
  /\ evalsSinceQuestion' = [evalsSinceQuestion EXCEPT ![c] = Bump(@)]
  /\ epoch' = [epoch EXCEPT ![c] = @ + 1]
  /\ UNCHANGED <<games, created, rooms, connected, fetching, starts, lastQuestion>>

\* The callback of the setTimeout(..., 200) of submit-answer.
GraceFire(c, i) ==
  /\ timers[c][i].kind = "grace"
  /\ MayFire(c, i)
  /\ LET g == Fired(c, i).game
         idx == IF IsSome(g.currentQuestionIndex) THEN Get(g.currentQuestionIndex) ELSE 0
         raw == CurrentQuestion([g EXCEPT !.currentQuestionIndex = Some(idx)])
         correct == IF IsSome(raw) THEN Some(Get(raw).correct_answer) ELSE None
         players == Evaluate(g.players, correct)
     IN /\ heap' = [heap EXCEPT ![c] = [g EXCEPT !.players = players,
                                                 !.currentAllAnswers = None,
                                                 !.currentQuestionIndex = Some(idx + 1),
                                                 !.timer = "armed"]]
        /\ \E left \in ArmChoices(Fired(c, i).timers, RevealDelayMs) :
             timers' = [timers EXCEPT ![c] =
                          SetTimer(Fired(c, i).timers, InEpoch(RevealTimer(left), epoch[c] + 1))]
        /\ out' = << ToRoom(c, "question-ended",
                            [correctAnswer |-> correct, players |-> ScoreView(players)]) >>
  /\ last' = Label("grace-timer", 0, c, [stale |-> Stale(c, i)])
  /\ evalsSinceQuestion' = [evalsSinceQuestion EXCEPT ![c] = Bump(@)]
  /\ epoch' = [epoch EXCEPT ![c] = @ + 1]
  /\ UNCHANGED <<games, created, rooms, connected, fetching, starts, lastQuestion>>

\* The callback of the setTimeout(..., timeLimit * 1000) of sendQuestion.
DeadlineFire(c, i) ==
  /\ timers[c][i].kind = "deadline"
  /\ MayFire(c, i)
  /\ LET g == Fired(c, i).game
         idx == IF IsSome(g.currentQuestionIndex) THEN Get(g.currentQuestionIndex) ELSE 0
         correct == Some(Get(timers[c][i].raw).correct_answer)
         players == Evaluate(g.players, correct)
     IN /\ heap' = [heap EXCEPT ![c] = [g EXCEPT !.evaluating = TRUE,
                                                 !.players = players,
                                                 !.questionEndAt = FALSE,
                                                 !.currentAllAnswers = None,
                                                 !.currentQuestionIndex = Some(idx + 1),
                                                 !.timer = "armed"]]
        /\ \E left \in ArmChoices(Fired(c, i).timers, RevealDelayMs) :
             timers' = [timers EXCEPT ![c] =
                          SetTimer(Fired(c, i).timers, InEpoch(RevealTimer(left), epoch[c] + 1))]
        /\ out' = << ToRoom(c, "question-ended",
                            [correctAnswer |-> correct, players |-> ScoreView(players)]) >>
  /\ last' = Label("deadline-timer", 0, c, [stale |-> Stale(c, i)])
  /\ evalsSinceQuestion' = [evalsSinceQuestion EXCEPT ![c] = Bump(@)]
  /\ epoch' = [epoch EXCEPT ![c] = @ + 1]
  /\ UNCHANGED <<games, created, rooms, connected, fetching, starts, lastQuestion>>

\* The callback of the setTimeout(..., 3000) armed by either evaluation.
RevealFire(c, i) ==
  /\ timers[c][i].kind = "reveal"
  /\ MayFire(c, i)
  /\ LET g == [Fired(c, i).game EXCEPT !.evaluating = FALSE] IN
     \E shuffle \in ShuffleChoices(c, g), left \in DeadlineChoices(c, g, Fired(c, i).timers) :
       LET r == SendQuestion(c, g, Fired(c, i).timers, shuffle, left, epoch[c]) IN
       /\ heap' = [heap EXCEPT ![c] = r.game]
       /\ timers' = [timers EXCEPT ![c] = r.timers]
       /\ out' = r.emits
       /\ evalsSinceQuestion' =
            [evalsSinceQuestion EXCEPT ![c] = IF r.asked THEN 0 ELSE @]
       /\ lastQuestion' = [lastQuestion EXCEPT ![c] = Asked(r, @)]
  /\ last' = Label("reveal-timer", 0, c, [stale |-> Stale(c, i)])
  /\ UNCHANGED <<games, created, rooms, connected, fetching, starts, epoch>>

GraceTimerFires == \E c \in DOMAIN timers : \E i \in DOMAIN timers[c] : GraceFire(c, i)
DeadlineTimerFires == \E c \in DOMAIN timers : \E i \in DOMAIN timers[c] : DeadlineFire(c, i)
RevealTimerFires == \E c \in DOMAIN timers : \E i \in DOMAIN timers[c] : RevealFire(c, i)

\* ------------------------------------------------------------------ Next
\* Every step the sockets in S can cause, with at most limit start-game
\* calls reaching the fetch.
Step(S, limit) ==
  \/ \E s \in S : CreateGame(s)
  \/ \E s \in S, c \in Codes : JoinGame(s, c)
  \/ \E s \in S, c \in Codes : GetPlayers(s, c)
  \/ \E s \in S, c \in Codes : GetState(s, c)
  \/ \E s \in S, c \in Codes, tl \in TimeLimitInputs : StartGame(s, c, tl, limit)
  \/ \E s \in S, c \in Codes, data \in Batches : FetchOk(c, s, data)
  \/ \E s \in S, c \in Codes : FetchFailed(c, s)
  \/ \E s \in S, c \in Codes, answer \in AnswerInputs, questionIndex \in IndexInputs :
       SubmitAnswer(s, c, answer, questionIndex)
  \/ \E s \in S, c \in Codes : LeaveGame(s, c)
  \/ \E s \in S : Disconnect(s)
  \/ GraceTimerFires
  \/ DeadlineTimerFires
  \/ RevealTimerFires
  \/ Tick

\* Every socket takes part; the host starts a match once.
Next == Step(Conns, MaxStarts)
Spec == Init /\ [][Next]_vars

\* One socket takes part; it may start a match again, at any time.
NextRestart == Step(1..MaxSoloConns, MaxRestarts)
SpecRestart == Init /\ [][NextRestart]_vars

\* ================================================================ properties
\* The question at the cursor of g has been broadcast and not yet evaluated:
\* currentAllAnswers is set by sendQuestion and deleted by both evaluations
\* and by endGame.
QuestionOpen(g) == g.active /\ IsSome(g.currentAllAnswers) /\ IsSome(CurrentQuestion(g))

Scores(players) == [i \in DOMAIN players |-> players[i].score]

TimerOps == {"grace-timer", "deadline-timer", "reveal-timer"}
EvaluationOps == {"grace-timer", "deadline-timer"}

HasEvent(name) == \E k \in DOMAIN out : out[k].name = name

\* The sockets an event is delivered to.
Recipients(e) == IF e.sock # 0 THEN {e.sock} ELSE rooms[e.room]

\* The code of the game an event speaks of.
GameOf(e) == IF e.room # 0 THEN e.room ELSE last.code

\* ---------------------------------------------------------------------- C1
\* C1: between two question broadcasts of a session, evaluation (scoring
\* pass, question-ended, cursor advance) runs at most once.
EvaluatedAtMostOnce == \A c \in Codes : evalsSinceQuestion[c] <= 1

\* ---------------------------------------------------------------------- C2
\* C2: a session has at most one pending timer callback at any time.
AtMostOnePendingTimer == \A c \in Codes : Len(timers[c]) <= 1

\* ---------------------------------------------------------------------- C3
\* C3: a timer callback that fires after the session has moved on (cursor
\* changed or question list replaced since it was armed) changes no score,
\* leaves the cursor where it is and broadcasts neither question-ended nor
\* question.
StaleTimerIsNoOp ==
  [][ (last'.op \in TimerOps /\ last'.args.stale) =>
        /\ Scores(heap'[last'.code].players) = Scores(heap[last'.code].players)
        /\ heap'[last'.code].currentQuestionIndex = heap[last'.code].currentQuestionIndex
        /\ \A k \in DOMAIN out' : out'[k].name \notin {"question-ended", "question"} ]_vars

\* ---------------------------------------------------------------------- C4
\* C4: at every evaluation that finds a question open, each player of the
\* roster gains exactly one point if the recorded answer is the correct
\* answer of that question, and otherwise keeps the score; afterwards no
\* player has a recorded answer.
ScoringInvariant ==
  [][ (last'.op \in EvaluationOps /\ QuestionOpen(heap[last'.code])) =>
        LET before == heap[last'.code].players
            after == heap'[last'.code].players
            correct == Some(Get(CurrentQuestion(heap[last'.code])).correct_answer)
        IN /\ DOMAIN after = DOMAIN before
           /\ \A i \in DOMAIN before :
                /\ after[i].score =
                     IF before[i].lastAnswer = correct
                       THEN before[i].score + 1 ELSE before[i].score
                /\ after[i].lastAnswer = None ]_vars

\* ---------------------------------------------------------------------- C5
\* C5: once a player has a recorded answer for the open question, a further
\* submit-answer of that player leaves the recorded answer as it is.
FirstSubmissionWins ==
  [][ last'.op = "submit-answer" =>
        \A c \in games : \A i \in DOMAIN heap[c].players :
          (IsSome(heap[c].players[i].lastAnswer) /\ i \in DOMAIN heap'[c].players)
            => heap'[c].players[i].lastAnswer = heap[c].players[i].lastAnswer ]_vars

\* ---------------------------------------------------------------------- C6
\* C6: a submit-answer whose questionIndex is not the session's cursor
\* changes no recorded answer and no score, arms no evaluation and emits
\* nothing.
StaleIndexIgnored ==
  [][ ( /\ last'.op = "submit-answer"
        /\ Some(last'.args.questionIndex) # heap[last'.code].currentQuestionIndex )
      => /\ heap' = heap
         /\ timers' = timers
         /\ evalsSinceQuestion' = evalsSinceQuestion
         /\ out' = <<>> ]_vars

\* A submit-answer for another index than the cursor has been processed, from
\* a player of an active session with a question open who has no answer
\* recorded: nothing but the index stood against it.
StaleIndexSubmitted ==
  /\ last.op = "submit-answer"
  /\ last.code \in games
  /\ QuestionOpen(heap[last.code])
  /\ ~heap[last.code].evaluating
  /\ Some(last.args.questionIndex) # heap[last.code].currentQuestionIndex
  /\ Present(heap[last.code].players, last.sock)
  /\ ~Truthy(MyAnswer(heap[last.code], last.sock))
  /\ out = <<>>

\* ---------------------------------------------------------------------- C7
\* C7: a question broadcast for an open question has no field that
\* identifies the correct answer.
QuestionBroadcastHidesAnswer ==
  \A k \in DOMAIN out :
    (out[k].name = "question" /\ out[k].room \in games /\ QuestionOpen(heap[out[k].room]))
      => /\ "correct_answer" \notin DOMAIN out[k].payload
         /\ "incorrect_answers" \notin DOMAIN out[k].payload

\* ---------------------------------------------------------------------- C8
\* C8: while a question is open, no event carries the recorded answer text
\* of a player to any other socket.
NoForeignAnswerText ==
  \A k \in DOMAIN out :
    ( /\ GameOf(out[k]) \in games
      /\ QuestionOpen(heap[GameOf(out[k])])
      /\ "players" \in DOMAIN out[k].payload )
    => \A i \in DOMAIN out[k].payload.players :
         LET p == out[k].payload.players[i] IN
         ("lastAnswer" \in DOMAIN p /\ Truthy(p.lastAnswer))
           => Recipients(out[k]) \subseteq {p.id}

\* ---------------------------------------------------------------------- C9
\* C9: a state reply sent while a question is open does not contain the
\* correct answer of that question.
StateReplyHidesAnswer ==
  \A k \in DOMAIN out :
    ( /\ out[k].name = "state"
      /\ last.code \in games
      /\ QuestionOpen(heap[last.code])
      /\ "question" \in DOMAIN out[k].payload )
    => /\ "correct_answer" \notin DOMAIN out[k].payload.question
       /\ "incorrect_answers" \notin DOMAIN out[k].payload.question

\* --------------------------------------------------------------------- C10
\* C10: a get-state processed while the session is evaluating is answered
\* with the roster only.
StateReplyWhileEvaluating ==
  (last.op = "get-state" /\ last.code \in games /\ heap[last.code].evaluating)
    => /\ HasEvent("state")
       /\ \A k \in DOMAIN out : DOMAIN out[k].payload = {"players"}

\* get-state has been answered while the session was evaluating and the
\* cursor was on a question.
StateAskedWhileEvaluating ==
  /\ last.op = "get-state"
  /\ last.code \in games
  /\ heap[last.code].evaluating
  /\ heap[last.code].active
  /\ IsSome(CurrentQuestion(heap[last.code]))
  /\ HasEvent("state")

\* --------------------------------------------------------------------- C12
\* The lobby alone, with more sockets than the roster is meant to hold: games
\* are created, joined and left, no match is started.  Sockets are numbered
\* in the order in which they first join, and only the first MaxLeavers of
\* them ever leave or disconnect.
LobbyConns == 1..MaxLobbyConns

InitLobby ==
  /\ heap = [c \in Codes |-> NoGame]
  /\ games = {}
  /\ created = 0
  /\ rooms = [c \in Codes |-> {}]
  /\ connected = [s \in LobbyConns |-> TRUE]
  /\ timers = [c \in Codes |-> <<>>]
  /\ fetching = [c \in Codes |-> [s \in LobbyConns |-> 0]]
  /\ starts = 0
  /\ last = Label("listen", 0, 0, NoArgs)
  /\ out = <<>>
  /\ evalsSinceQuestion = [c \in Codes |-> 0]
  /\ epoch = [c \in Codes |-> 0]
  /\ lastQuestion = [c \in Codes |-> None]

\* Socket s may be the next to join for the first time.
NextToJoin(s, c) ==
  s <= MaxLeavers + 1 \/ Present(heap[c].players, s - 1)

LobbyJoin(s, c) == NextToJoin(s, c) /\ JoinGame(s, c)

NextLobby ==
  \/ \E s \in 1..MaxLeavers : CreateGame(s)
  \/ \E s \in LobbyConns, c \in Codes : LobbyJoin(s, c)
  \/ \E s \in 1..MaxLeavers, c \in Codes : LeaveGame(s, c)
  \/ \E s \in 1..MaxLeavers : Disconnect(s)

SpecLobby == InitLobby /\ [][NextLobby]_vars

\* The roster size the sessions are specified to hold at most.
Capacity == 8

\* C12: the roster of every registered session has between 1 and Capacity
\* players.
RosterWithinCapacity ==
  \A c \in games : Len(heap[c].players) >= 1 /\ Len(heap[c].players) <= Capacity

\* --------------------------------------------------------------------- C13
\* C13: the host of every registered session is the first member of its
\* roster, and no other member has the host's id.
HostIsEarliestMember ==
  \A c \in games :
    /\ Len(heap[c].players) >= 1
    /\ heap[c].host = heap[c].players[1].id
    /\ \A i \in DOMAIN heap[c].players : heap[c].players[i].id = heap[c].host => i = 1

\* The host has left or disconnected and other players remain.
HostDeparted ==
  /\ last.op \in {"leave-game", "disconnect"}
  /\ last.args.host
  /\ \E c \in games : ~Present(heap[c].players, last.sock) /\ HasEvent("update-players")

\* --------------------------------------------------------------------- C14
\* C14: a start-game for an unknown code or from a socket that is not the
\* host sends one start-error to the requester and nothing else, changes no
\* game, no timer and no roster, and issues no fetch.
StartRefusedChangesNothing ==
  [][ ( /\ last'.op = "start-game"
        /\ \/ last'.code \notin games
           \/ heap[last'.code].host # last'.sock )
      => /\ heap' = heap
         /\ games' = games
         /\ timers' = timers
         /\ fetching' = fetching
         /\ Len(out') = 1
         /\ out'[1].name = "start-error"
         /\ out'[1].sock = last'.sock
         /\ out'[1].room = 0 ]_vars

\* A player who is not the host has asked to start the game of a registered
\* session.
StartRefusedForPlayer ==
  /\ last.op = "start-game"
  /\ last.code \in games
  /\ Present(heap[last.code].players, last.sock)
  /\ heap[last.code].host # last.sock
  /\ HasEvent("start-error")

\* --------------------------------------------------------------------- C15
\* C15: after a start-game whose fetch has failed, the requester has a
\* start-error and a session that no fetch ever succeeded for and none is
\* pending for is as create-game left it: no settings, no questions, no
\* cursor, not active, no timer.
FailedFetchLeavesLobbyUntouched ==
  ( /\ last.op = "fetch-failed"
    /\ last.code \in games
    /\ ~IsSome(heap[last.code].questions)
    /\ \A s \in DOMAIN fetching[last.code] : fetching[last.code][s] = 0 )
  => /\ out = << ToSocket(last.sock, "start-error", [message |-> "Failed to fetch questions"]) >>
     /\ heap[last.code].settings = None
     /\ heap[last.code].currentQuestionIndex = None
     /\ ~heap[last.code].active
     /\ timers[last.code] = <<>>

\* --------------------------------------------------------------------- C16
\* C16: when the fetch returns an empty batch, the requester gets a
\* start-error, the session is not active, and game-started, question and
\* game-over are not broadcast.
EmptyBatchIsFetchFailure ==
  (last.op = "fetch-ok" /\ heap[last.code].questions = Some(<<>>))
  => /\ HasEvent("start-error")
     /\ ~heap[last.code].active
     /\ \A k \in DOMAIN out : out[k].name \notin {"game-started", "question", "game-over"}

\* --------------------------------------------------------------------- C17
\* C17: in a session whose settings are those start-game stores for a request
\* without timeLimit, no deadline timer is pending, no questionEndAt is set
\* and no evaluation is made by a deadline timer.
NoTimeLimitMeansUntimed ==
  \A c \in games :
    (heap[c].settings = Some([timeLimit |-> StoredTimeLimit(TL_Undefined)]))
    => /\ \A i \in DOMAIN timers[c] : timers[c][i].kind # "deadline"
       /\ ~heap[c].questionEndAt
       /\ ~(last.op = "deadline-timer" /\ last.code = c)

\* --------------------------------------------------------------------- C18
\* C18: when question or game-over is broadcast to a session, the session's
\* evaluating flag is false.
NotEvaluatingAtQuestion ==
  \A k \in DOMAIN out :
    (out[k].name \in {"question", "game-over"}) => ~heap[out[k].room].evaluating

\* --------------------------------------------------------------------- C19
\* C19: a leave-game or disconnect that leaves a session registered takes
\* the leaver out of its roster, keeps the other players as they are, and
\* changes no other field of the session but the host; no timer changes,
\* and a session the leave-game does not name is left as it is.
Others(players, s) == SelectSeq(players, LAMBDA p : p.id # s)

LeaveChangesRosterOnly ==
  [][ last'.op \in {"leave-game", "disconnect"} =>
        /\ timers' = timers
        /\ \A c \in games' :
             IF last'.op = "disconnect" \/ last'.code = c
               THEN /\ heap'[c].players = Others(heap[c].players, last'.sock)
                    /\ [heap'[c] EXCEPT !.players = <<>>, !.host = 0]
                         = [heap[c] EXCEPT !.players = <<>>, !.host = 0]
               ELSE heap'[c] = heap[c] ]_vars

\* The host has left or disconnected while a question was open with its
\* deadline timer pending, and a player with a recorded answer remains.
HostDepartedMidQuestion ==
  /\ HostDeparted
  /\ \E c \in games :
       /\ QuestionOpen(heap[c])
       /\ timers[c] # <<>>
       /\ \E i \in DOMAIN heap[c].players : Truthy(heap[c].players[i].lastAnswer)

\* --------------------------------------------------------------------- C20
\* C20: a join-game from a socket that is in the roster changes no session,
\* and no roster ever holds one socket id twice.
NoDuplicates(players) ==
  \A i, j \in DOMAIN players : players[i].id = players[j].id => i = j

JoinIsIdempotent ==
  [][ /\ ( /\ last'.op = "join-game"
           /\ last'.code \in games
           /\ Present(heap[last'.code].players, last'.sock) ) => heap' = heap
      /\ \A c \in Codes : NoDuplicates(heap'[c].players) ]_vars

\* A player with a recorded answer has joined the session again.
Rejoined ==
  /\ last.op = "join-game"
  /\ last.code \in games
  /\ Truthy(MyAnswer(heap[last.code], last.sock))
  /\ HasEvent("join-success")

\* --------------------------------------------------------------------- C21
\* The registry with more than one code: the sockets create, join and leave
\* games and disconnect, no match is started.
RegistryCodes == 1..MaxRegistryCodes

InitRegistry ==
  /\ heap = [c \in RegistryCodes |-> NoGame]
  /\ games = {}
  /\ created = 0
  /\ rooms = [c \in RegistryCodes |-> {}]
  /\ connected = [s \in Conns |-> TRUE]
  /\ timers = [c \in RegistryCodes |-> <<>>]
  /\ fetching = [c \in RegistryCodes |-> [s \in Conns |-> 0]]
  /\ starts = 0
  /\ last = Label("listen", 0, 0, NoArgs)
  /\ out = <<>>
  /\ evalsSinceQuestion = [c \in RegistryCodes |-> 0]
  /\ epoch = [c \in RegistryCodes |-> 0]
  /\ lastQuestion = [c \in RegistryCodes |-> None]

NextRegistry ==
  \/ \E s \in Conns : CreateGame(s)
  \/ \E s \in Conns, c \in RegistryCodes : JoinGame(s, c)
  \/ \E s \in Conns, c \in RegistryCodes : LeaveGame(s, c)
  \/ \E s \in Conns : Disconnect(s)

SpecRegistry == InitRegistry /\ [][NextRegistry]_vars

\* The registered sessions that have socket s in their roster.
SessionsOf(s) == { c \in games : Present(heap[c].players, s) }

\* C21: every connection id is in the roster of at most one registered
\* session.
OneRosterPerConnection ==
  \A s \in DOMAIN connected : Cardinality(SessionsOf(s)) <= 1

\* --------------------------------------------------------------------- C22
\* C22: a session that has been removed from the registry has no pending
\* timer, and no timer callback runs for a session that is not registered.
NoTimerOfDestroyedSession ==
  /\ \A c \in DOMAIN timers : c \notin games => timers[c] = <<>>
  /\ last.op \in TimerOps => last.code \in games

\* --------------------------------------------------------------------- C23
\* The events named name in a sequence of events.
EventsNamed(events, name) == SelectSeq(events, LAMBDA e : e.name = name)

\* C23: when a start-game or a reveal pause finds the cursor beyond the
\* questions, game-over is broadcast, once, with the roster and its scores;
\* the session is then not active, has no pending timer and is registered;
\* no game-over is broadcast for a session that is complete already; and a
\* session leaves the registry only with an empty roster.
CompleteAtCursorEnd ==
  [][ /\ ( /\ last'.op \in {"fetch-ok", "reveal-timer"}
           /\ last'.code \in games
           /\ IsSome(heap'[last'.code].questions)
           /\ ~IsSome(CurrentQuestion(heap'[last'.code])) )
         => Len(EventsNamed(out', "game-over")) = 1
      /\ \A k \in DOMAIN out' :
           out'[k].name = "game-over" =>
             /\ ~heap'[out'[k].room].active
             /\ timers'[out'[k].room] = <<>>
             /\ out'[k].room \in games'
             /\ out'[k].payload.players = ScoreView(heap'[out'[k].room].players)
             /\ Len(EventsNamed(out', "game-over")) = 1
             /\ last'.op = "reveal-timer" => heap[out'[k].room].active
      /\ \A c \in games \ games' : heap'[c].players = <<>> ]_vars

\* --------------------------------------------------------------------- C24
\* The latest question broadcast to room c was for the index at the cursor of
\* the session, and no evaluation has been broadcast since.
QuestionAwaitsEnd(c) ==
  /\ heap[c].active
  /\ evalsSinceQuestion[c] = 0
  /\ IsSome(lastQuestion[c])
  /\ Some(Get(lastQuestion[c]).index) = heap[c].currentQuestionIndex

\* C24: question-ended and all-answered are broadcast only after the question
\* at the cursor has been broadcast and before any question-ended for it; a
\* reveal pause broadcasts a question only in a match that is not over, after
\* one question-ended for the question before, and for the next index.
BroadcastOrder ==
  [][ \A k \in DOMAIN out' :
        /\ out'[k].name \in {"question-ended", "all-answered"}
             => QuestionAwaitsEnd(out'[k].room)
        /\ (out'[k].name = "question" /\ last'.op = "reveal-timer")
             => /\ heap[out'[k].room].active
                /\ evalsSinceQuestion[out'[k].room] = 1
                /\ IsSome(lastQuestion[out'[k].room])
                /\ out'[k].payload.index = Get(lastQuestion[out'[k].room]).index + 1 ]_vars

\* --------------------------------------------------------------------- C25
\* C25: a submit-answer processed while the session is evaluating gives no
\* player an answer that counts as one and changes no score, and while the
\* session is evaluating after a scoring pass no player has such an answer.
ClosedQuestionTakesNoAnswer ==
  [][ /\ ( /\ last'.op = "submit-answer"
           /\ last'.code \in games
           /\ heap[last'.code].evaluating )
         => /\ Scores(heap'[last'.code].players) = Scores(heap[last'.code].players)
            /\ \A i \in DOMAIN heap'[last'.code].players :
                 Truthy(heap'[last'.code].players[i].lastAnswer)
                   => heap'[last'.code].players[i].lastAnswer
                        = heap[last'.code].players[i].lastAnswer
      /\ \A c \in games' :
           (heap'[c].evaluating /\ ~IsSome(heap'[c].currentAllAnswers))
             => \A i \in DOMAIN heap'[c].players :
                  ~Truthy(heap'[c].players[i].lastAnswer) ]_vars

\* --------------------------------------------------------------------- C26
\* Untimed matches only: every start-game carries timeLimit null, so that no
\* deadline timer is ever armed.  A timer that has expired fires, and time
\* does not stop while a timer is pending.
NextUntimed ==
  \/ \E s \in Conns : CreateGame(s)
  \/ \E s \in Conns, c \in Codes : JoinGame(s, c)
  \/ \E s \in Conns, c \in Codes : StartGame(s, c, TL_Null, MaxStarts)
  \/ \E s \in Conns, c \in Codes, data \in Batches : FetchOk(c, s, data)
  \/ \E s \in Conns, c \in Codes : FetchFailed(c, s)
  \/ \E s \in Conns, c \in Codes, answer \in AnswerInputs, questionIndex \in IndexInputs :
       SubmitAnswer(s, c, answer, questionIndex)
  \/ \E s \in Conns, c \in Codes : LeaveGame(s, c)
  \/ \E s \in Conns : Disconnect(s)
  \/ GraceTimerFires
  \/ RevealTimerFires
  \/ Tick

SpecUntimed ==
  /\ Init
  /\ [][NextUntimed]_vars
  /\ WF_vars(Tick)
  /\ WF_vars(GraceTimerFires)
  /\ WF_vars(RevealTimerFires)

\* Session c has an untimed question open that every player of its roster
\* has answered.
EveryoneAnswered(c) ==
  /\ c \in games
  /\ QuestionOpen(heap[c])
  /\ ~IsSome(EffectiveTimeLimit(heap[c]))
  /\ AllAnswered(heap[c].players)

\* C26: an untimed match does not stay for ever with a question open that
\* every player of the roster has answered: the question is evaluated (or
\* the roster or the session changes).
AnsweredQuestionGetsEvaluated ==
  \A c \in Codes : []<>~EveryoneAnswered(c)

\* --------------------------------------------------------------------- C27
\* C27: a submit-answer that records the last missing answer of a session
\* that is not evaluating broadcasts all-answered, leaves no deadline timer
\* of the question pending and arms the grace timer; when a grace timer
\* fires, the question it was armed for is still the open one, that question
\* is scored (one point for its correct answer) and question-ended alone is
\* broadcast, with that correct answer.
AllAnsweredPath ==
  [][ /\ ( /\ last'.op = "submit-answer"
           /\ last'.code \in games
           /\ heap'[last'.code].players # heap[last'.code].players
           /\ AllAnswered(heap'[last'.code].players)
           /\ ~heap[last'.code].evaluating )
         => /\ Len(EventsNamed(out', "all-answered")) = 1
            /\ \A i \in DOMAIN timers'[last'.code] :
                 timers'[last'.code][i].kind = "deadline"
                   => timers'[last'.code][i].epoch # epoch[last'.code]
            /\ Len(SelectSeq(timers'[last'.code],
                             LAMBDA t : t.kind = "grace" /\ t.epoch = epoch[last'.code])) = 1
      /\ last'.op = "grace-timer"
         => /\ ~last'.args.stale
            /\ QuestionOpen(heap[last'.code])
            /\ LET before == heap[last'.code].players
                   after == heap'[last'.code].players
                   correct == Some(Get(CurrentQuestion(heap[last'.code])).correct_answer)
               IN /\ DOMAIN after = DOMAIN before
                  /\ \A i \in DOMAIN before :
                       after[i].score = IF before[i].lastAnswer = correct
                                          THEN before[i].score + 1 ELSE before[i].score
                  /\ out' = << ToRoom(last'.code, "question-ended",
                                      [correctAnswer |-> correct,
                                       players |-> ScoreView(after)]) >> ]_vars

\* --------------------------------------------------------------------- C28
\* C28: when the deadline timer armed for the open question fires, every
\* player whose recorded answer is the correct answer of that question gains
\* one point, every other player (those without a recorded answer among
\* them) keeps the score, question-ended carries that correct answer and
\* those scores, and the cursor advances by one.
TimeoutPath ==
  [][ ( /\ last'.op = "deadline-timer"
        /\ ~last'.args.stale
        /\ QuestionOpen(heap[last'.code]) )
      => LET before == heap[last'.code].players
             after == heap'[last'.code].players
             correct == Some(Get(CurrentQuestion(heap[last'.code])).correct_answer)
         IN /\ DOMAIN after = DOMAIN before
            /\ \A i \in DOMAIN before :
                 /\ after[i].id = before[i].id
                 /\ after[i].score = IF before[i].lastAnswer = correct
                                       THEN before[i].score + 1 ELSE before[i].score
                 /\ ~IsSome(before[i].lastAnswer) => after[i].score = before[i].score
            /\ out' = << ToRoom(last'.code, "question-ended",
                                [correctAnswer |-> correct, players |-> ScoreView(after)]) >>
            /\ heap'[last'.code].currentQuestionIndex
                 = Some(Get(heap[last'.code].currentQuestionIndex) + 1) ]_vars

\* The deadline timer of the first question has fired with one player having
\* answered correctly and another not having scored.
TimedOutWithOneAnswer ==
  /\ last.op = "deadline-timer"
  /\ ~last.args.stale
  /\ HasEvent("question-ended")
  /\ heap[last.code].currentQuestionIndex = Some(1)
  /\ \E i, j \in DOMAIN heap[last.code].players :
       /\ heap[last.code].players[i].score = 1
       /\ heap[last.code].players[j].score = 0

\* --------------------------------------------------------------------- C29
\* C29: after a start-game whose fetch returned at least one question, the
\* session has its cursor at 0, is active, has no recorded answer, holds in
\* currentAllAnswers an ordering of the answers of question 0, and has been
\* sent game-started and then the question of index 0 in that ordering.
StartOpensQuestionZero ==
  ( /\ last.op = "fetch-ok"
    /\ last.code \in games
    /\ heap[last.code].questions # Some(<<>>) )
  => LET g == heap[last.code] IN
     /\ g.currentQuestionIndex = Some(0)
     /\ g.active
     /\ \A i \in DOMAIN g.players : g.players[i].lastAnswer = None
     /\ IsSome(g.currentAllAnswers)
     /\ Get(g.currentAllAnswers) \in Perms(AllAnswers(Get(g.questions)[1]))
     /\ Len(out) = 2
     /\ out[1].name = "game-started"
     /\ out[2].name = "question"
     /\ out[2].room = last.code
     /\ out[2].payload.index = 0
     /\ out[2].payload.all_answers = Get(g.currentAllAnswers)

\* A start-game has succeeded while the grace timer of an earlier match of
\* the session was pending: every player had a recorded answer when the
\* fetch returned.
StartedOverRecordedAnswers ==
  /\ last.op = "fetch-ok"
  /\ last.code \in games
  /\ HasEvent("question")
  /\ \E i \in DOMAIN timers[last.code] : timers[last.code][i].kind = "grace"

\* --------------------------------------------------------------------- C30
\* C30: questionEndAt of a registered session holds a timestamp only while a
\* question with a time limit is open and the session is not evaluating.
DeadlineOnlyWhileQuestionOpen ==
  \A c \in games :
    heap[c].questionEndAt
      => /\ QuestionOpen(heap[c])
         /\ ~heap[c].evaluating
         /\ IsSome(EffectiveTimeLimit(heap[c]))

\* --------------------------------------------------------------------- C31
\* C31: whenever a registered session holds currentAllAnswers, its cursor is
\* on a question of its question list, the ordering was drawn by the latest
\* question broadcast and for the index at the cursor, and it is a
\* permutation of the incorrect answers and the correct answer of that
\* question.
AnswerOrderIsOfCurrentQuestion ==
  \A c \in games :
    IsSome(heap[c].currentAllAnswers)
      => /\ IsSome(CurrentQuestion(heap[c]))
         /\ Get(heap[c].currentAllAnswers) \in Perms(AllAnswers(Get(CurrentQuestion(heap[c]))))
         /\ IsSome(lastQuestion[c])
         /\ Some(Get(lastQuestion[c]).index) = heap[c].currentQuestionIndex
         /\ Get(lastQuestion[c]).all_answers = Get(heap[c].currentAllAnswers)

\* The second question of a match is open, in an order that is not the one
\* the question stores its answers in.
SecondQuestionShuffled ==
  \E c \in games :
    /\ IsSome(heap[c].currentAllAnswers)
    /\ heap[c].currentQuestionIndex = Some(1)
    /\ IsSome(CurrentQuestion(heap[c]))
    /\ Get(heap[c].currentAllAnswers) # AllAnswers(Get(CurrentQuestion(heap[c])))

\* --------------------------------------------------------------------- C32
\* C32: in a registered session that has a question list, the cursor is at
\* least 0 and at most the number of questions of the list.
CursorWithinQuestions ==
  \A c \in games :
    (IsSome(heap[c].questions) /\ IsSome(heap[c].currentQuestionIndex))
      => /\ Get(heap[c].currentQuestionIndex) >= 0
         /\ Get(heap[c].currentQuestionIndex) <= Len(Get(heap[c].questions))

\* --------------------------------------------------------------------- C33
\* C33: after every step a Game object is registered exactly when its roster
\* is not empty, and create-game registers a game whose roster is the
\* creator alone, who is its host.
RegisteredIffRosterNonEmpty ==
  [][ /\ \A c \in DOMAIN heap' : c \in games' <=> heap'[c].players # <<>>
      /\ last'.op = "create-game"
         => /\ last'.code \in games' \ games
            /\ heap'[last'.code].players = <<NewPlayer(last'.sock)>>
            /\ heap'[last'.code].host = last'.sock ]_vars

\* The host, last of the roster, has left and the session is gone.
LastPlayerLeft ==
  /\ last.op = "leave-game"
  /\ last.args.host
  /\ last.code \notin games
  /\ heap[last.code].players = <<>>

\* --------------------------------------------------------------------- C34
\* C34: when a disconnect has been processed, the socket is in no roster and
\* is the host of no registered session.
DisconnectedIsGone ==
  last.op = "disconnect"
    => \A c \in DOMAIN heap :
         /\ ~Present(heap[c].players, last.sock)
         /\ c \in games => heap[c].host # last.sock

\* The socket that disconnected was in the rosters of two sessions, host of
\* one of them at least, and both sessions go on with other players.
DisconnectedFromTwoSessions ==
  /\ last.op = "disconnect"
  /\ last.args.host
  /\ Cardinality(games) = 2
  /\ Len(EventsNamed(out, "update-players")) = 2

\* --------------------------------------------------------------------- C35
\* C35: a join-game, get-players or get-state naming a code that is not
\* registered sends one join-error to the requester and nothing else; a
\* submit-answer naming such a code, a session that is not active, or coming
\* from a socket that is not in the roster emits nothing; none of them
\* changes a game, the registry, a room or a timer.
RejectedRequestChangesNothing ==
  [][ /\ ( /\ last'.op \in {"join-game", "get-players", "get-state"}
           /\ last'.code \notin games )
         => /\ <<heap', games', rooms', timers'>> = <<heap, games, rooms, timers>>
            /\ Len(out') = 1
            /\ out'[1].name = "join-error"
            /\ out'[1].sock = last'.sock
            /\ out'[1].room = 0
      /\ ( /\ last'.op = "submit-answer"
           /\ \/ last'.code \notin games
              \/ ~heap[last'.code].active
              \/ ~Present(heap[last'.code].players, last'.sock) )
         => /\ <<heap', games', rooms', timers'>> = <<heap, games, rooms, timers>>
            /\ out' = <<>> ]_vars

\* A socket that is not in the roster has submitted an answer for the open
\* question of an active session, with the index of that question.
OutsiderSubmitted ==
  /\ last.op = "submit-answer"
  /\ last.code \in games
  /\ QuestionOpen(heap[last.code])
  /\ ~heap[last.code].evaluating
  /\ Some(last.args.questionIndex) = heap[last.code].currentQuestionIndex
  /\ ~Present(heap[last.code].players, last.sock)
  /\ out = <<>>

\* --------------------------------------------------------------------- C36
\* Two sessions side by side: the first socket creates the games and stays in
\* them, the other sockets join and leave games under either code; every
\* socket may ask to start a match, of one question with the time limit of
\* one tick, and answer.
OneQuestion == { b \in Batches : Len(b) = 1 }
ShortTimeLimit == TL_Number(TickMs \div 1000)

\* The host starts the match of a session once.
FirstStart(s, c) ==
  /\ ~IsSome(heap[c].settings)
  /\ StartGame(s, c, ShortTimeLimit, MaxRegistryCodes)

NextSessions ==
  \/ \E s \in 1..MaxSoloConns : CreateGame(s)
  \/ \E s \in Conns, c \in RegistryCodes : JoinGame(s, c)
  \/ \E s \in Conns, c \in RegistryCodes : FirstStart(s, c)
  \/ \E s \in Conns, c \in RegistryCodes, data \in OneQuestion : FetchOk(c, s, data)
  \/ \E s \in Conns, c \in RegistryCodes : FetchFailed(c, s)
  \/ \E s \in Conns, c \in RegistryCodes : SubmitAnswer(s, c, "A", 0)
  \/ \E s \in Conns \ (1..MaxSoloConns), c \in RegistryCodes : LeaveGame(s, c)
  \/ GraceTimerFires
  \/ DeadlineTimerFires
  \/ RevealTimerFires
  \/ Tick

SpecSessions == InitRegistry /\ [][NextSessions]_vars

\* The requests and callbacks that are addressed to one session.
SessionOps ==
  {"create-game", "join-game", "leave-game", "start-game", "fetch-ok", "fetch-failed",
   "submit-answer"} \cup TimerOps

\* C36: a create-game, join-game, leave-game, start-game (its fetch
\* included), submit-answer or timer callback of one session leaves every
\* other session as it is: its Game object, its place in the registry, its
\* pending timers and its pending fetches.
SessionsAreIndependent ==
  [][ last'.op \in SessionOps =>
        \A b \in DOMAIN heap \ {last'.code} :
          /\ heap'[b] = heap[b]
          /\ (b \in games') = (b \in games)
          /\ timers'[b] = timers[b]
          /\ fetching'[b] = fetching[b] ]_vars

\* A player of a session has given the last missing answer while another
\* session had a question open and its deadline timer pending.
AnsweredBesideOpenSession ==
  /\ last.op = "submit-answer"
  /\ HasEvent("all-answered")
  /\ \E b \in games \ {last.code} :
       /\ QuestionOpen(heap[b])
       /\ \E i \in DOMAIN timers[b] : timers[b][i].kind = "deadline"

\* --------------------------------------------------------------------- C37
\* Timed matches only: every start-game comes without timeLimit, which is
\* stored as DefaultTimeLimit, and the host starts once.  A timer that has
\* expired fires, and time does not stop while a timer is pending.
NextTimed ==
  \/ \E s \in Conns : CreateGame(s)
  \/ \E s \in Conns, c \in Codes : JoinGame(s, c)
  \/ \E s \in Conns, c \in Codes : StartGame(s, c, TL_Undefined, MaxStarts)
  \/ \E s \in Conns, c \in Codes, data \in Batches : FetchOk(c, s, data)
  \/ \E s \in Conns, c \in Codes : FetchFailed(c, s)
  \/ \E s \in Conns, c \in Codes, answer \in AnswerInputs, questionIndex \in IndexInputs :
       SubmitAnswer(s, c, answer, questionIndex)
  \/ \E s \in Conns, c \in Codes : LeaveGame(s, c)
  \/ \E s \in Conns : Disconnect(s)
  \/ GraceTimerFires
  \/ DeadlineTimerFires
  \/ RevealTimerFires
  \/ Tick

SpecTimed ==
  /\ Init
  /\ [][NextTimed]_vars
  /\ WF_vars(Tick)
  /\ WF_vars(GraceTimerFires)
  /\ WF_vars(DeadlineTimerFires)
  /\ WF_vars(RevealTimerFires)

\* C37: in a timed match that is started once, a session that is active
\* eventually is not active any more, unless its last player leaves; a
\* reveal pause broadcasts a question only after exactly one evaluation of
\* the question before and for the next index; and when a reveal pause ends
\* the match, game-over is broadcast with the cursor at the number of
\* questions and the last question evaluated once.
TimedMatchTerminates ==
  /\ \A c \in Codes :
       (c \in games /\ heap[c].active) ~> (c \notin games \/ ~heap[c].active)
  /\ [][ \A k \in DOMAIN out' :
           (out'[k].name = "question" /\ last'.op = "reveal-timer")
             => /\ evalsSinceQuestion[out'[k].room] = 1
                /\ lastQuestion[out'[k].room]
                     = Some([index |-> out'[k].payload.index - 1,
                             all_answers |-> Get(lastQuestion[out'[k].room]).all_answers]) ]_vars
  /\ [](\A k \in DOMAIN out :
          (out[k].name = "game-over" /\ last.op = "reveal-timer")
            => /\ ~heap[out[k].room].active
               /\ heap[out[k].room].currentQuestionIndex
                    = Some(Len(Get(heap[out[k].room].questions)))
               /\ evalsSinceQuestion[out[k].room] = 1)

\* A match of MaxQuestions questions has ended after its last reveal pause,
\* with a player in the roster.
MatchPlayedToTheEnd ==
  /\ last.op = "reveal-timer"
  /\ HasEvent("game-over")
  /\ last.code \in games
  /\ ~heap[last.code].active
  /\ heap[last.code].currentQuestionIndex = Some(MaxQuestions)

\* --------------------------------------------------------------------- C38
\* C38: when the fetch of a start-game returns for a session that is no
\* longer registered, the registry stays as it is, no question is broadcast
\* and no timer is armed or cleared.
LateFetchLeavesSessionDestroyed ==
  [][ (last'.op = "fetch-ok" /\ last'.code \notin games)
      => /\ games' = games
         /\ timers' = timers
         /\ Len(EventsNamed(out', "question")) = 0 ]_vars

\* The fetch has returned a batch of questions for a session whose players
\* have all left.
FetchReturnedForDestroyedSession ==
  /\ last.op = "fetch-ok"
  /\ last.code \notin games
  /\ heap[last.code].players = <<>>
  /\ IsSome(CurrentQuestion(heap[last.code]))
  /\ HasEvent("game-started")

\* --------------------------------------------------------------------- C39
\* The socket ids of a roster.
Ids(players) == { players[i].id : i \in DOMAIN players }

\* C39: the sockets joined to the room of a code are the sockets in the
\* roster of the Game object of that code.
RoomIsRoster ==
  \A c \in DOMAIN heap : rooms[c] = Ids(heap[c].players)

\* The host has left a session by leave-game and the others are still in
\* the room.
HostLeftTheRoom ==
  /\ last.op = "leave-game"
  /\ last.args.host
  /\ last.code \in games
  /\ rooms[last.code] # {}
  /\ last.sock \notin rooms[last.code]

\* --------------------------------------------------------------------- C11
\* C11: a state reply that contains a question carries the answer order of
\* the latest question broadcast of the session, and that broadcast was for
\* the same question index.
StateOrderingIsBroadcast ==
  \A k \in DOMAIN out :
    (out[k].name = "state" /\ "question" \in DOMAIN out[k].payload)
      => /\ IsSome(lastQuestion[last.code])
         /\ Get(lastQuestion[last.code]).index = out[k].payload.question.index
         /\ Get(lastQuestion[last.code]).all_answers = out[k].payload.question.all_answers

\* A state reply with a question has been sent, and the order it carries is
\* not the order in which the question stores its answers.
StateSentWithQuestion ==
  /\ last.op = "get-state"
  /\ \E k \in DOMAIN out :
       /\ out[k].name = "state"
       /\ "question" \in DOMAIN out[k].payload
       /\ out[k].payload.question.all_answers
            # AllAnswers(Get(CurrentQuestion(heap[last.code])))

====
